---- MODULE Spec2Model ----
(***************************************************************************)
(* A model of the three-tab planning application: the JSON-block           *)
(* extractors and the satellite matcher as operators, and the button       *)
(* handlers of Tab1 (tab1_usecase.render) and Tab2 (tab2_plan.render) as   *)
(* actions over the session state.                                         *)
(*                                                                         *)
(* Texts are sequences of characters, each a string.                       *)
(***************************************************************************)
EXTENDS Integers, Sequences, FiniteSets, TLC

VARIABLES text, block1, block2, called,
          catalog, bands, res_target, revisit_target, recs,
          session, prev, last, ui, client

exvars == <<text, block1, block2>>
mtvars == <<catalog, bands, res_target, revisit_target, recs>>
appvars == <<session, prev, last, ui, client>>
vars == <<text, block1, block2, called, catalog, bands, res_target, revisit_target, recs,
          session, prev, last, ui, client>>

(***************************************************************************)
(* Bounds.                                                                 *)
(***************************************************************************)
\* A text handed to the extractors is a concatenation of at most MaxPieces pieces.
MaxPieces == 5
\* A catalog handed to the matcher holds at most MaxCatalog records.
MaxCatalog == 7

(***************************************************************************)
(* Text helpers (str.strip, str.find, regex \s).                           *)
(***************************************************************************)
\* Characters outside ASCII, and the backquote, are written by name.
BQ == "bq"
\* U+2013 EN DASH
EN_DASH == "endash"
\* U+7D04 (approximately)
YAKU == "yaku"
\* U+65E5 (day)
NICHI == "nichi"
FENCE == <<BQ, BQ, BQ>>
TAG == <<"j", "s", "o", "n">>
EMPTY_OBJECT == <<"{", "}">>
SAR == <<"S", "A", "R">>

Min(S) == CHOOSE x \in S : \A y \in S : x <= y
Max(S) == CHOOSE x \in S : \A y \in S : x >= y

IsSpace(c) == c = " "

\* t has the literal lit at position i (1-based).
HasAt(t, i, lit) ==
    /\ i >= 1
    /\ i + Len(lit) - 1 <= Len(t)
    /\ SubSeq(t, i, i + Len(lit) - 1) = lit

\* The first position at or after i that holds no whitespace (Len(t)+1 if none).
SkipWs(t, i) ==
    Min({j \in i..(Len(t) + 1) : j = Len(t) + 1 \/ ~IsSpace(t[j])})

\* str.strip()
Strip(t) ==
    LET idx == {i \in 1..Len(t) : ~IsSpace(t[i])}
    IN  IF idx = {} THEN <<>> ELSE SubSeq(t, Min(idx), Max(idx))

\* str.find("{"), 1-based; 0 when there is none (-1 in Python).
FindBrace(t) ==
    LET idx == {i \in 1..Len(t) : t[i] = "{"}
    IN  IF idx = {} THEN 0 ELSE Min(idx)

(***************************************************************************)
(* The fenced-block regular expressions, searched as re.search does:       *)
(*   Tab1: FENCE(?:json)?\s*(.+?)\s*FENCE        (braced = FALSE)         *)
(*   Tab2: FENCE(?:json)?\s*(\{.*?\})\s*FENCE    (braced = TRUE)          *)
(* A match is <<first, last>>, the positions of group 1; NoMatch if none.  *)
(* Backtracking order: the tag taken before not taken, the leading \s*     *)
(* longest first, the group shortest first.                                *)
(***************************************************************************)
NoMatch == <<0, 0>>

\* The result of a function that has not been called.
NotCalled == <<"?">>

\* \s*FENCE matches right after position e.
EndOk(t, e) == HasAt(t, SkipWs(t, e + 1), FENCE)

\* The group ends that let the rest of the pattern match, for a group starting at g0.
GroupEnds(t, g0, braced) ==
    {e \in (IF braced THEN g0 + 1 ELSE g0)..Len(t) :
        /\ braced => t[e] = "}"
        /\ EndOk(t, e)}

\* The lengths of the leading \s* (at position p) with which the pattern matches.
LeadWs(t, p, braced) ==
    {w \in 0..(SkipWs(t, p) - p) :
        /\ p + w <= Len(t)
        /\ braced => t[p + w] = "{"
        /\ GroupEnds(t, p + w, braced) # {}}

\* The match with the leading \s* taking one of the lengths ws, the longest.
MatchLead(t, p, braced, ws) ==
    IF ws = {} THEN NoMatch
    ELSE <<p + Max(ws), Min(GroupEnds(t, p + Max(ws), braced))>>

\* The match with the text of the pattern after the optional tag starting at p.
MatchFrom(t, p, braced) == MatchLead(t, p, braced, LeadWs(t, p, braced))

\* The match m with the tag taken, else the match with the tag not taken.
MatchTag(t, i, braced, m) ==
    IF m # NoMatch THEN m ELSE MatchFrom(t, i + 3, braced)

\* The match of the whole pattern anchored at position i.
MatchAt(t, i, braced) ==
    IF ~HasAt(t, i, FENCE) THEN NoMatch
    ELSE IF HasAt(t, i + 3, TAG)
         THEN MatchTag(t, i, braced, MatchFrom(t, i + 7, braced))
         ELSE MatchFrom(t, i + 3, braced)

\* The match at the leftmost of the positions starts.
FirstMatch(t, braced, starts) ==
    IF starts = {} THEN NoMatch ELSE MatchAt(t, Min(starts), braced)

\* re.search: the match at the leftmost position that has one.
FenceSearch(t, braced) ==
    FirstMatch(t, braced, {i \in 1..Len(t) : MatchAt(t, i, braced) # NoMatch})

(***************************************************************************)
(* tab1_usecase._extract_json_block: the fenced group, else the whole text.*)
(***************************************************************************)
T1_group(t, m) == Strip(IF m # NoMatch THEN SubSeq(t, m[1], m[2]) ELSE t)

T1_extract_json_block(t) == T1_group(t, FenceSearch(t, FALSE))

(***************************************************************************)
(* tab2_plan._extract_json_block: the fenced {...}, else the first '{' to  *)
(* its depth-counted close, else "{}".                                     *)
(***************************************************************************)
Count(t, a, b, c) == Cardinality({k \in a..b : t[k] = c})

\* The positions where the depth counter, started at start, returns to 0.
Closes(t, start) ==
    {i \in start..Len(t) :
        t[i] = "}" /\ Count(t, start, i, "{") = Count(t, start, i, "}")}

\* As BraceClose, but an unclosed '{' yields the rest of the text.
BraceClose_unclosed(t, start, closes) ==
    IF closes = {} THEN Strip(SubSeq(t, start, Len(t)))
    ELSE Strip(SubSeq(t, start, Min(closes)))

\* The text from start to the first of the positions closes; "{}" if none.
BraceClose(t, start, closes) ==
    IF closes = {} THEN EMPTY_OBJECT
    ELSE Strip(SubSeq(t, start, Min(closes)))

\* The depth-counted block that starts at the first '{' (start; 0 if none).
BraceMatch(t, start) ==
    IF start = 0 THEN EMPTY_OBJECT ELSE BraceClose(t, start, Closes(t, start))

T2_group(t, m) ==
    IF m # NoMatch THEN Strip(SubSeq(t, m[1], m[2]))
    ELSE BraceMatch(t, FindBrace(t))

T2_extract_json_block(t) ==
    IF t = <<>> THEN EMPTY_OBJECT ELSE T2_group(t, FenceSearch(t, TRUE))

(***************************************************************************)
(* Numbers.  Python floats are modelled as exact rationals <<num, den>>    *)
(* with den > 0, kept in lowest terms.                                     *)
(***************************************************************************)
Abs(n) == IF n < 0 THEN -n ELSE n

RECURSIVE Gcd(_, _)
Gcd(a, b) == IF b = 0 THEN a ELSE Gcd(b, a % b)

Rat(n, d) ==
    LET g == Gcd(Abs(n), d)
    IN  IF g = 0 THEN <<0, 1>> ELSE <<n \div g, d \div g>>

RAdd(a, b) == Rat(a[1] * b[2] + b[1] * a[2], a[2] * b[2])
RSub(a, b) == Rat(a[1] * b[2] - b[1] * a[2], a[2] * b[2])
RAbs(a) == <<Abs(a[1]), a[2]>>
RLe(a, b) == a[1] * b[2] <= b[1] * a[2]
RLt(a, b) == a[1] * b[2] < b[1] * a[2]
RDivInt(a, n) == Rat(a[1], a[2] * n)
\* x * 1.5
RTimes15(a) == Rat(3 * a[1], 2 * a[2])

\* The value returned when a text holds no number.
SENTINEL == 9999
SentinelR == <<SENTINEL, 1>>

Digits == <<"0", "1", "2", "3", "4", "5", "6", "7", "8", "9">>
IsDigit(c) == \E i \in 1..10 : Digits[i] = c
DigitVal(c) == (CHOOSE i \in 1..10 : Digits[i] = c) - 1

RECURSIVE Pow10(_)
Pow10(n) == IF n = 0 THEN 1 ELSE 10 * Pow10(n - 1)

RECURSIVE DigitsVal(_)
DigitsVal(ds) ==
    IF ds = <<>> THEN 0
    ELSE 10 * DigitsVal(SubSeq(ds, 1, Len(ds) - 1)) + DigitVal(ds[Len(ds)])

\* The end of the run of digits starting at position i (i - 1 if there is none).
DigitRunEnd(t, i) ==
    Max({j \in (i - 1)..Len(t) : \A k \in i..j : IsDigit(t[k])})

\* The end of the match of \d+\.?\d* starting at the digit at position i.
NumberEnd(t, i) ==
    LET e == DigitRunEnd(t, i)
    IN  IF e < Len(t) /\ t[e + 1] = "." THEN DigitRunEnd(t, e + 2) ELSE e

\* float() of a text matching \d+\.?\d*
ToFloat(t) ==
    LET dot == {i \in 1..Len(t) : t[i] = "."}
        ip == IF dot = {} THEN t ELSE SubSeq(t, 1, Min(dot) - 1)
        fp == IF dot = {} THEN <<>> ELSE SubSeq(t, Min(dot) + 1, Len(t))
    IN  Rat(DigitsVal(ip \o fp), Pow10(Len(fp)))

\* str.replace(c, "")
Remove(t, cs) == SelectSeq(t, LAMBDA c : c \notin cs)

(***************************************************************************)
(* tab1_usecase._parse_min_res: the first number of the text.              *)
(***************************************************************************)
_parse_min_res(s) ==
    LET s1 == [i \in 1..Len(s) |-> IF s[i] = EN_DASH THEN "/" ELSE s[i]]
        s2 == Remove(s1, {YAKU})
        starts == {i \in 1..Len(s2) : IsDigit(s2[i])}
    IN  IF starts = {} THEN SentinelR
        ELSE ToFloat(SubSeq(s2, Min(starts), NumberEnd(s2, Min(starts))))

(***************************************************************************)
(* tab1_usecase._parse_revisit_days: the mean of the numeric parts.        *)
(***************************************************************************)
IsSep(c) == c \in {"/", "-", EN_DASH} \/ IsSpace(c)

\* re.split on runs of "/", "-", EN_DASH and whitespace, without the empty parts (they are no numbers).
RECURSIVE Parts(_)
Parts(t) ==
    IF t = <<>> THEN <<>>
    ELSE IF IsSep(t[1]) THEN Parts(Tail(t))
    ELSE LET e == Max({j \in 1..Len(t) : \A k \in 1..j : ~IsSep(t[k])})
         IN  <<SubSeq(t, 1, e)>> \o Parts(SubSeq(t, e + 1, Len(t)))

\* re.match(r"^\d+\.?\d*$", p)
IsNumber(p) == p # <<>> /\ IsDigit(p[1]) /\ NumberEnd(p, 1) = Len(p)

RECURSIVE RSum(_)
RSum(ns) == IF ns = <<>> THEN <<0, 1>> ELSE RAdd(Head(ns), RSum(Tail(ns)))

_parse_revisit_days(s) ==
    LET s1 == Strip(Remove(Remove(s, {NICHI}), {"<"}))
        ps == SelectSeq(Parts(s1), IsNumber)
        nums == [i \in 1..Len(ps) |-> ToFloat(ps[i])]
    IN  IF nums = <<>> THEN SentinelR ELSE RDivInt(RSum(nums), Len(nums))

(***************************************************************************)
(* tab1_usecase._search_satellites                                         *)
(***************************************************************************)
\* The records returned at most.
TOP_N == 5

\* str.lower() on the letters of the model.
LowerChar(c) ==
    CASE c = "S" -> "s" [] c = "A" -> "a" [] c = "R" -> "r" [] c = "C" -> "c"
      [] c = "N" -> "n" [] c = "I" -> "i" [] c = "T" -> "t" [] OTHER -> c
Lower(t) == [i \in 1..Len(t) |-> LowerChar(t[i])]

\* a in b, for strings
In(a, b) == \E i \in 1..(Len(b) + 1) : HasAt(b, i, a)

band_ok(sat, bs) ==
    IF bs # <<>>
    THEN \A i \in 1..Len(bs) : In(Lower(bs[i]), Lower(sat.spectral_band))
    ELSE TRUE
res_ok(sat, rt) == RLe(_parse_min_res(sat.spatial_resolution_m), RTimes15(rt))
rv_ok(sat, vt) == RLe(_parse_revisit_days(sat.revisit), RTimes15(vt))

score(sat, rt, vt) ==
    RAdd(RAbs(RSub(_parse_min_res(sat.spatial_resolution_m), rt)),
         RAbs(RSub(_parse_revisit_days(sat.revisit), vt)))

\* list.sort(key=score): stable, ascending.
RECURSIVE InsertByScore(_, _, _, _)
InsertByScore(sorted, sat, rt, vt) ==
    IF sorted = <<>> THEN <<sat>>
    ELSE IF RLt(score(sat, rt, vt), score(Head(sorted), rt, vt))
         THEN <<sat>> \o sorted
         ELSE <<Head(sorted)>> \o InsertByScore(Tail(sorted), sat, rt, vt)

RECURSIVE SortByScore(_, _, _)
SortByScore(rs, rt, vt) ==
    IF rs = <<>> THEN <<>>
    ELSE InsertByScore(SortByScore(SubSeq(rs, 1, Len(rs) - 1), rt, vt),
                       rs[Len(rs)], rt, vt)

\* As Top, without the cut to the first TOP_N.
Top_uncut(sorted) == sorted

\* recs[:5]
Top(sorted) ==
    SubSeq(sorted, 1, IF Len(sorted) < TOP_N THEN Len(sorted) ELSE TOP_N)

_search_satellites(cat, bs, rt, vt) ==
    Top(SortByScore(SelectSeq(cat, LAMBDA sat :
                        band_ok(sat, bs) /\ res_ok(sat, rt) /\ rv_ok(sat, vt)),
                    rt, vt))

(***************************************************************************)
(* JSON values.  Every value is a record of one shape:                     *)
(*   kind   "none" (None / null), "object", "array", "string", "number"    *)
(*   n      the length of an array or string, the value of a number        *)
(*   keys   the keys of an object                                          *)
(*   strs   the values of its string members                               *)
(*   rkeys, bands, nums   the keys and members of its "requirements"       *)
(***************************************************************************)
StrKeys == {"usecase_name", "usecase", "objective"}
NumKeys == {"spatial_resolution_m_target", "revisit_days_target", "gsd_m", "revisit_days"}
TopKeyOrder == <<"usecase_name", "usecase", "objective", "requirements", "stack", "risks">>
ReqKeyOrder == <<"bands", "spatial_resolution_m_target", "revisit_days_target",
                 "gsd_m", "revisit_days">>

NoBands == [t |-> "absent", s |-> <<>>, l |-> <<>>]
BandStr(s) == [t |-> "str", s |-> s, l |-> <<>>]
BandList(l) == [t |-> "list", s |-> <<>>, l |-> l]
NoNum == [t |-> "absent", v |-> <<0, 1>>]
Num(n) == [t |-> "num", v |-> <<n, 1>>]
NoStrs == [k \in StrKeys |-> ""]
NoNums == [k \in NumKeys |-> NoNum]

JNone == [kind |-> "none", n |-> 0, keys |-> {}, strs |-> NoStrs,
          rkeys |-> {}, bands |-> NoBands, nums |-> NoNums]
JArray(n) == [JNone EXCEPT !.kind = "array", !.n = n]
JNumber(n) == [JNone EXCEPT !.kind = "number", !.n = n]
JObject(keys, strs, rkeys, bs, nums) ==
    [kind |-> "object", n |-> 0, keys |-> keys, strs |-> strs,
     rkeys |-> rkeys, bands |-> bs, nums |-> nums]

\* bool(v)
Truthy(v) ==
    CASE v.kind = "none" -> FALSE
      [] v.kind = "object" -> v.keys # {}
      [] OTHER -> v.n # 0

IsDict(v) == v.kind = "object"

(***************************************************************************)
(* The JSON text of a value (json.dumps without whitespace), and           *)
(* json.loads as its inverse on the values of JsonUniverse; a text that    *)
(* is the text of no value is not JSON.  A key or a string body is one     *)
(* lexeme of the text.                                                     *)
(***************************************************************************)
\* The double quote.
DQ == "dq"

RECURSIVE IntChars(_)
IntChars(n) ==
    IF n < 10 THEN <<Digits[n + 1]>>
    ELSE IntChars(n \div 10) \o <<Digits[(n % 10) + 1]>>

RECURSIVE Join(_)
Join(ms) ==
    IF ms = <<>> THEN <<>>
    ELSE IF Len(ms) = 1 THEN ms[1]
    ELSE ms[1] \o <<",">> \o Join(Tail(ms))

Quoted(body) == <<DQ>> \o body \o <<DQ>>
Member(k, value) == Quoted(<<k>>) \o <<":">> \o value

DumpBands(b) ==
    IF b.t = "str" THEN Quoted(b.s)
    ELSE <<"[">> \o Join([i \in 1..Len(b.l) |-> Quoted(b.l[i])]) \o <<"]">>

DumpReq(v) ==
    LET ks == SelectSeq(ReqKeyOrder, LAMBDA k : k \in v.rkeys)
    IN  <<"{">> \o Join([i \in 1..Len(ks) |->
                    Member(ks[i], IF ks[i] = "bands" THEN DumpBands(v.bands)
                                  ELSE IntChars(v.nums[ks[i]].v[1]))]) \o <<"}">>

DumpObject(v) ==
    LET ks == SelectSeq(TopKeyOrder, LAMBDA k : k \in v.keys)
    IN  <<"{">> \o Join([i \in 1..Len(ks) |->
                    Member(ks[i], IF ks[i] \in StrKeys THEN Quoted(<<v.strs[ks[i]]>>)
                                  ELSE IF ks[i] = "requirements" THEN DumpReq(v)
                                  ELSE EMPTY_OBJECT)]) \o <<"}">>

Dump(v) ==
    CASE v.kind = "none" -> <<"null">>
      [] v.kind = "number" -> IntChars(v.n)
      [] v.kind = "string" -> Quoted([i \in 1..v.n |-> "o"])
      [] v.kind = "array" -> <<"[">> \o Join([i \in 1..v.n |-> <<"1">>]) \o <<"]">>
      [] v.kind = "object" -> DumpObject(v)

\* The use-case drafts, configuration plans and other values a reply may hold.
DraftFull ==
    JObject({"usecase_name", "objective", "requirements"},
            [NoStrs EXCEPT !["usecase_name"] = "drought", !["objective"] = "assess"],
            {"bands", "spatial_resolution_m_target", "revisit_days_target"},
            BandList(<<SAR>>),
            [NoNums EXCEPT !["spatial_resolution_m_target"] = Num(10),
                           !["revisit_days_target"] = Num(3)])
DraftGsd(gsd, rv) ==
    JObject({"usecase", "requirements"},
            [NoStrs EXCEPT !["usecase"] = "drought"],
            {"bands", "gsd_m", "revisit_days"},
            BandStr(SAR),
            [NoNums EXCEPT !["gsd_m"] = Num(gsd), !["revisit_days"] = Num(rv)])
DraftNoReq == JObject({"usecase_name"}, [NoStrs EXCEPT !["usecase_name"] = "flood"],
                      {}, NoBands, NoNums)
EmptyObject == JObject({}, NoStrs, {}, NoBands, NoNums)
PlanA == JObject({"stack"}, NoStrs, {}, NoBands, NoNums)
PlanB == JObject({"stack", "risks"}, NoStrs, {}, NoBands, NoNums)

JsonUniverse ==
    {DraftFull, DraftGsd(10, 3), DraftGsd(100, 3), DraftNoReq, EmptyObject,
     PlanA, PlanB, JArray(2), JNumber(7), JNone}

LoadError == [ok |-> FALSE, value |-> JNone]

\* json.loads: ok with the value, or not ok where json.loads raises.
LoadOf(vs) ==
    IF vs = {} THEN LoadError ELSE [ok |-> TRUE, value |-> CHOOSE v \in vs : TRUE]

json_loads(t) == LoadOf({v \in JsonUniverse : Dump(v) = Remove(t, {" "})})

(***************************************************************************)
(* SATELLITES is read-only reference data (satellites_db): the catalogs    *)
(* of the model are made of the records below.                             *)
(***************************************************************************)
Sat(name, instr, band, res, rv) ==
    [mission_name |-> name, instrument_name |-> instr, spectral_band |-> band,
     spatial_resolution_m |-> res, revisit |-> rv]

RecordPool == <<
    Sat("Sentinel-1", "C-SAR", <<"C", "-", "S", "A", "R">>,
        <<"1", "0">>, <<"3", " ", NICHI>>),
    Sat("ALOS-2", "PALSAR-2", SAR,
        <<"5", EN_DASH, "4", "0">>, <<"6", EN_DASH, "1", "2", " ", NICHI>>),
    Sat("ICEYE", "X-SAR", <<"s", "a", "r">>,
        <<"0", ".", "3", "1", "/", "1", ".", "2", "4", "/", "3", ".", "7">>,
        <<"<", " ", "1", " ", NICHI>>),
    Sat("Capella", "SAR", SAR, <<YAKU, " ", "3">>, <<"1", " ", NICHI>>),
    Sat("NISAR", "L-SAR", SAR, <<"2", "0">>, <<"5">>),
    Sat("RCM", "SAR", SAR, <<"3", "0">>, <<"2", "/", "3">>),
    Sat("Sentinel-2", "MSI", <<"N", "I", "R">>, <<"1", "0">>, <<"5", " ", NICHI>>),
    Sat("NoRes", "SAR", SAR, <<>>, <<"3", " ", NICHI>>),
    Sat("NoRevisit", "SAR", SAR, <<"1", "0">>, <<"x">>)
>>

\* The records of the pool at the positions idx, in the order of the pool.
Select(idx) == SelectSeq(RecordPool, LAMBDA r :
                   \E i \in idx : RecordPool[i] = r)

(***************************************************************************)
(* The session state (st.session_state) and the plan Tab1 confirms.        *)
(***************************************************************************)
NoPlan ==
    [kind |-> "none", usecase_name |-> "", observation_objective |-> "",
     observation_bands |-> NoBands, spatial_resolution_target_m |-> <<0, 1>>,
     revisit_target_days |-> <<0, 1>>, recommended_satellites |-> <<>>,
     proposed_configuration |-> <<>>, supplemental_note |-> ""]

EmptySession ==
    [draft_plan |-> JNone, final_plan |-> NoPlan, confirmed_plan |-> NoPlan,
     design_plan_draft |-> JNone, design_plan_confirmed |-> JNone]

\* The fallbacks of the confirm handler.
RES_FALLBACK == 30
REVISIT_FALLBACK == 5
\* The labels proposed at most.
PROPOSED_N == 3

UNNAMED == "(unnamed)"

\* draft.get("usecase_name") or the placeholder
usecase_name(draft) ==
    IF "usecase_name" \in draft.keys /\ draft.strs["usecase_name"] # ""
    THEN draft.strs["usecase_name"] ELSE UNNAMED

\* draft.get("objective") or ""
objective(draft) == IF "objective" \in draft.keys THEN draft.strs["objective"] ELSE ""

HasReq(draft, k) == "requirements" \in draft.keys /\ k \in draft.rkeys

\* req.get("bands") or []
req_bands(draft) ==
    IF HasReq(draft, "bands") /\ draft.bands.s \o draft.bands.l # <<>>
    THEN draft.bands ELSE BandList(<<>>)

\* The strings that iterating over bands yields: the items of a list, the
\* characters of a string.
BandItems(b) ==
    IF b.t = "str" THEN [i \in 1..Len(b.s) |-> <<b.s[i]>>] ELSE b.l

\* req.get(k), None when there is none
req_num(draft, k) == IF HasReq(draft, k) THEN draft.nums[k] ELSE NoNum

\* As res_f, reading the key gsd_m.
res_f_gsd(draft) ==
    LET x == req_num(draft, "gsd_m")
    IN  IF x.t = "num" THEN x.v ELSE <<RES_FALLBACK, 1>>

\* float(x if isinstance(x, (int, float)) else fallback)
res_f(draft) ==
    LET x == req_num(draft, "spatial_resolution_m_target")
    IN  IF x.t = "num" THEN x.v ELSE <<RES_FALLBACK, 1>>
rv_f(draft) ==
    LET x == req_num(draft, "revisit_days_target")
    IN  IF x.t = "num" THEN x.v ELSE <<REVISIT_FALLBACK, 1>>

\* The final plan the OK button of Tab1 stores.
PlanOf(draft, rs) ==
    LET np == IF Len(rs) < PROPOSED_N THEN Len(rs) ELSE PROPOSED_N
    IN  [kind |-> "object",
         usecase_name |-> usecase_name(draft),
         observation_objective |-> objective(draft),
         observation_bands |-> req_bands(draft),
         spatial_resolution_target_m |-> res_f(draft),
         revisit_target_days |-> rv_f(draft),
         recommended_satellites |-> rs,
         proposed_configuration |->
             [i \in 1..np |-> <<rs[i].mission_name, rs[i].instrument_name>>],
         supplemental_note |-> "note"]

final_plan(draft, cat) ==
    PlanOf(draft, _search_satellites(cat, BandItems(req_bands(draft)),
                                     res_f(draft), rv_f(draft)))

(***************************************************************************)
(* tab1_usecase.render, run with the button `pressed` (or "none") and the  *)
(* completion service answering `reply`: the reply text, or err where the  *)
(* call raises.  cl: an API key is set (client is not None).               *)
(* The result: the session, whether an exception left render, the          *)
(* messages shown and the buttons that can be pressed next.                *)
(***************************************************************************)
T1Out(s, raised, msgs, buttons) ==
    [session |-> s, raised |-> raised, msgs |-> msgs, buttons |-> buttons]

\* The try block of the generate button: the parsed reply is stored, or the
\* error and the raw text are shown.
T1_store(s, parsed) ==
    IF parsed.ok
    THEN [session |-> [s EXCEPT !.draft_plan = parsed.value], msgs |-> {}]
    ELSE [session |-> s, msgs |-> {"t1_json_error", "t1_raw_text"}]

\* The generate button, pressed (gen) with the call returning reply.text.
T1_generate(s, gen, reply) ==
    IF gen THEN T1_store(s, json_loads(T1_extract_json_block(reply.text)))
    ELSE [session |-> s, msgs |-> {}]

\* render after the generate button: the draft view and its two buttons.
T1_view(g, pressed, cl, cat) ==
    LET b1 == IF cl THEN {"t1_gen"} ELSE {}
        b2 == b1 \cup {"t1_ok", "t1_clear"}
        draft == g.session.draft_plan
    IN  IF ~Truthy(draft) THEN T1Out(g.session, FALSE, g.msgs, b1)
        ELSE IF ~IsDict(draft)
        THEN T1Out(g.session, TRUE, g.msgs \cup {"uncaught_exception"}, b1)
        ELSE IF pressed = "t1_ok"
        THEN T1Out([g.session EXCEPT !.final_plan = final_plan(draft, cat)], FALSE,
                   g.msgs \cup {"t1_view", "t1_success"}, b2)
        ELSE IF pressed = "t1_clear"
        THEN T1Out([g.session EXCEPT !.draft_plan = JNone], FALSE,
                   g.msgs \cup {"t1_view", "t1_cleared"}, b2)
        ELSE T1Out(g.session, FALSE, g.msgs \cup {"t1_view"}, b2)

T1_render(s, pressed, reply, cl, cat) ==
    IF pressed = "t1_gen" /\ cl /\ reply.err
    THEN T1Out(s, TRUE, {"uncaught_exception"}, {"t1_gen"})
    ELSE T1_view(T1_generate(s, pressed = "t1_gen" /\ cl, reply), pressed, cl, cat)

(***************************************************************************)
(* tab2_plan._json_loads_safe and tab2_plan.render.                        *)
(* t2: "notice" (returned at the gate), "stopped" (nothing to show),       *)
(* "view" (a plan is shown), "raised"; design: the plan chosen for the     *)
(* view; rerun: st.rerun() was called.                                     *)
(***************************************************************************)
OrEmpty(r) == IF r.ok THEN r.value ELSE EmptyObject

T2_json_loads_safe(t) == OrEmpty(json_loads(t))

\* As design_of, with the draft preferred.
design_of_draft_first(s) ==
    IF Truthy(s.design_plan_draft) THEN s.design_plan_draft
    ELSE s.design_plan_confirmed

\* design_plan_confirmed or design_plan_draft
design_of(s) ==
    IF Truthy(s.design_plan_confirmed) THEN s.design_plan_confirmed
    ELSE s.design_plan_draft

T2Out(s, msgs, buttons, t2, design, rerun) ==
    [session |-> s, msgs |-> msgs, buttons |-> buttons, t2 |-> t2,
     design |-> design, rerun |-> rerun]

\* The generate button, pressed (gen): its try block.
T2_generate(s, gen, reply) ==
    IF gen /\ ~reply.err
    THEN [session |-> [s EXCEPT !.design_plan_draft =
                          T2_json_loads_safe(T2_extract_json_block(reply.text))],
          msgs |-> {}]
    ELSE IF gen THEN [session |-> s, msgs |-> {"t2_api_error"}]
    ELSE [session |-> s, msgs |-> {}]

\* The OK button, shown while there is a draft.
T2_confirm(g, pressed) ==
    IF Truthy(g.session.design_plan_draft) /\ pressed = "t2_ok"
    THEN [session |-> [g.session EXCEPT !.design_plan_confirmed =
                                            g.session.design_plan_draft],
          msgs |-> g.msgs \cup {"t2_confirmed"}]
    ELSE g

\* As T2_select, with a clear button that removes the draft only.
T2_select_draft_only(c, pressed, cl, design) ==
    LET bs == (IF cl THEN {"t2_gen"} ELSE {}) \cup
              (IF Truthy(c.session.design_plan_draft) THEN {"t2_ok"} ELSE {}) \cup
              {"t2_clear"}
    IN  IF pressed = "t2_clear"
        THEN T2Out([c.session EXCEPT !.design_plan_draft = JNone],
                   c.msgs \cup {"t2_cleared"}, bs, "stopped", JNone, TRUE)
        ELSE IF ~Truthy(design) THEN T2Out(c.session, c.msgs, bs, "stopped", design, FALSE)
        ELSE IF ~IsDict(design)
        THEN T2Out(c.session, c.msgs \cup {"uncaught_exception"}, bs, "raised",
                   design, FALSE)
        ELSE T2Out(c.session, c.msgs \cup {"t2_view"}, bs, "view", design, FALSE)

\* The clear button, then the choice of the plan to show.
T2_select(c, pressed, cl, design) ==
    LET bs == (IF cl THEN {"t2_gen"} ELSE {}) \cup
              (IF Truthy(c.session.design_plan_draft) THEN {"t2_ok"} ELSE {}) \cup
              {"t2_clear"}
    IN  IF pressed = "t2_clear"
        THEN T2Out([c.session EXCEPT !.design_plan_draft = JNone,
                                     !.design_plan_confirmed = JNone],
                   c.msgs \cup {"t2_cleared"}, bs, "stopped", JNone, TRUE)
        ELSE IF ~Truthy(design) THEN T2Out(c.session, c.msgs, bs, "stopped", design, FALSE)
        ELSE IF ~IsDict(design)
        THEN T2Out(c.session, c.msgs \cup {"uncaught_exception"}, bs, "raised",
                   design, FALSE)
        ELSE T2Out(c.session, c.msgs \cup {"t2_view"}, bs, "view", design, FALSE)

T2_buttons(c, pressed, cl) == T2_select(c, pressed, cl, design_of(c.session))

T2_render(s, pressed, reply, cl) ==
    IF s.confirmed_plan.kind = "none"
    THEN T2Out(s, {"t2_notice"}, {}, "notice", JNone, FALSE)
    ELSE T2_buttons(T2_confirm(T2_generate(s, pressed = "t2_gen" /\ cl, reply), pressed),
                    pressed, cl)

(***************************************************************************)
(* One run of the script (app.py): Tab1 is rendered, then Tab2 unless an   *)
(* exception ended the run; st.rerun() starts the script again with no     *)
(* button pressed.                                                         *)
(***************************************************************************)
PassOut(r1, r2) ==
    [session |-> r2.session, rerun |-> r2.rerun,
     ui |-> [msgs |-> r1.msgs \cup r2.msgs, buttons |-> r1.buttons \cup r2.buttons,
             t2 |-> r2.t2, design |-> r2.design]]

PassT2(r1, pressed, reply, cl) ==
    IF r1.raised
    THEN [session |-> r1.session, rerun |-> FALSE,
          ui |-> [msgs |-> r1.msgs, buttons |-> r1.buttons,
                  t2 |-> "not_run", design |-> JNone]]
    ELSE PassOut(r1, T2_render(r1.session, pressed, reply, cl))

Pass(s, pressed, reply, cl, cat) ==
    PassT2(T1_render(s, pressed, reply, cl, cat), pressed, reply, cl)

NoReply == [err |-> FALSE, text |-> <<>>]
TransportError == [err |-> TRUE, text |-> <<>>]

Rerun(p, cl, cat) ==
    IF p.rerun THEN Pass(p.session, "none", NoReply, cl, cat) ELSE p

RunScript(s, pressed, reply, cl, cat) == Rerun(Pass(s, pressed, reply, cl, cat), cl, cat)

(***************************************************************************)
(* The application: the user presses one of the buttons the last run       *)
(* showed, and the script runs.  prev and last record the session before   *)
(* the run and the input of the run.                                       *)
(***************************************************************************)
Text(v) == [err |-> FALSE, text |-> v]
Fenced(t) == FENCE \o TAG \o <<" ">> \o t \o <<" ">> \o FENCE
Prose(t) == <<"x", " ">> \o t \o <<" ", "x">>

\* Texts that hold no JSON: empty, no braces, braces around no JSON, an
\* unclosed brace.
Garbage == {<<>>, <<"x", " ", "x">>, <<"{", "x", "}">>, <<"x", "{">>}

T1Replies ==
    {TransportError}
    \cup {Text(Dump(v)) : v \in JsonUniverse}
    \cup {Text(Fenced(Dump(DraftFull))), Text(Prose(Dump(DraftFull)))}
    \cup {Text(t) : t \in Garbage}

T2Replies ==
    {TransportError}
    \cup {Text(Dump(v)) : v \in {PlanA, PlanB, EmptyObject, JArray(2), DraftFull}}
    \cup {Text(Fenced(Dump(PlanA))), Text(Prose(Dump(PlanB)))}
    \cup {Text(t) : t \in Garbage}

\* The Tab1 replies used where Tab2 is the subject.
T1RepliesTab2 ==
    {TransportError, Text(Dump(DraftFull)), Text(Dump(DraftNoReq)), Text(<<"x", "{">>)}

Sat100 == Sat("Coarse", "SAR", SAR, <<"1", "0", "0">>, <<"3", " ", NICHI>>)

AppCatalogs == {<<>>, <<RecordPool[1]>>, <<Sat100>>, RecordPool}

IdleHarness ==
    /\ text = <<>>
    /\ block1 = NotCalled
    /\ block2 = NotCalled
    /\ called = {}
    /\ bands = <<>>
    /\ res_target = <<RES_FALLBACK, 1>>
    /\ revisit_target = <<REVISIT_FALLBACK, 1>>
    /\ recs = <<>>

FirstRun(s) ==
    /\ session = s
    /\ prev = s
    /\ last = [button |-> "none", reply |-> NoReply]
    /\ ui = RunScript(s, "none", NoReply, client, catalog).ui

Init ==
    /\ IdleHarness
    /\ catalog \in AppCatalogs
    /\ client \in BOOLEAN
    /\ FirstRun(EmptySession)

Step(r, button, reply) ==
    /\ session' = r.session
    /\ ui' = r.ui
    /\ prev' = session
    /\ last' = [button |-> button, reply |-> reply]
    /\ UNCHANGED <<client, catalog, bands, res_target, revisit_target, recs>>
    /\ UNCHANGED <<text, block1, block2, called>>

Pressable(button) == button \in ui.buttons

PressT1Generate ==
    /\ Pressable("t1_gen")
    /\ \E reply \in T1Replies :
          Step(RunScript(session, "t1_gen", reply, client, catalog), "t1_gen", reply)

PressT1GenerateTab2 ==
    /\ Pressable("t1_gen")
    /\ \E reply \in T1RepliesTab2 :
          Step(RunScript(session, "t1_gen", reply, client, catalog), "t1_gen", reply)

PressT1Ok ==
    /\ Pressable("t1_ok")
    /\ Step(RunScript(session, "t1_ok", NoReply, client, catalog), "t1_ok", NoReply)

PressT1Clear ==
    /\ Pressable("t1_clear")
    /\ Step(RunScript(session, "t1_clear", NoReply, client, catalog), "t1_clear", NoReply)

PressT2Generate ==
    /\ Pressable("t2_gen")
    /\ \E reply \in T2Replies :
          Step(RunScript(session, "t2_gen", reply, client, catalog), "t2_gen", reply)

PressT2Ok ==
    /\ Pressable("t2_ok")
    /\ Step(RunScript(session, "t2_ok", NoReply, client, catalog), "t2_ok", NoReply)

PressT2Clear ==
    /\ Pressable("t2_clear")
    /\ Step(RunScript(session, "t2_clear", NoReply, client, catalog), "t2_clear", NoReply)

Next == PressT1Generate \/ PressT1Ok \/ PressT1Clear

Spec == Init /\ [][Next]_vars

(***************************************************************************)
(* Tab2 on its own terms: a session that already holds confirmed_plan,     *)
(* the key tab2_plan.render reads.                                         *)
(***************************************************************************)
InitTab2 ==
    /\ IdleHarness
    /\ catalog = RecordPool
    /\ client = TRUE
    /\ FirstRun([EmptySession EXCEPT
                    !.confirmed_plan = final_plan(DraftFull, RecordPool)])

NextTab2 ==
    \/ PressT1GenerateTab2 \/ PressT1Ok \/ PressT1Clear
    \/ PressT2Generate \/ PressT2Ok \/ PressT2Clear

SpecTab2 == InitTab2 /\ [][NextTab2]_vars


\* The application at rest, while a single function is examined.
IdleApp ==
    /\ session = EmptySession
    /\ prev = EmptySession
    /\ last = [button |-> "none", reply |-> NoReply]
    /\ ui = [msgs |-> {}, buttons |-> {}, t2 |-> "not_run", design |-> JNone]
    /\ client = FALSE

(***************************************************************************)
(* The extractors applied to every text of the bounded input set.          *)
(***************************************************************************)
Pieces == {FENCE, TAG, <<"{">>, <<"}">>, <<" ">>, <<"x">>, <<BQ>>}

RECURSIVE Concat(_)
Concat(ps) == IF ps = <<>> THEN <<>> ELSE Head(ps) \o Concat(Tail(ps))

Texts == {Concat(ps) : ps \in UNION {[1..n -> Pieces] : n \in 0..MaxPieces}}

InitExtract ==
    /\ text \in Texts
    /\ block1 = NotCalled
    /\ block2 = NotCalled
    /\ called = {}
    /\ catalog = <<>>
    /\ bands = <<>>
    /\ res_target = <<30, 1>>
    /\ revisit_target = <<5, 1>>
    /\ recs = <<>>
    /\ IdleApp

CallT1Extract ==
    /\ "T1_extract_json_block" \notin called
    /\ block1' = T1_extract_json_block(text)
    /\ called' = called \cup {"T1_extract_json_block"}
    /\ UNCHANGED <<text, block2>>
    /\ UNCHANGED mtvars
    /\ UNCHANGED appvars

CallT2Extract ==
    /\ "T2_extract_json_block" \notin called
    /\ block2' = T2_extract_json_block(text)
    /\ called' = called \cup {"T2_extract_json_block"}
    /\ UNCHANGED <<text, block1>>
    /\ UNCHANGED mtvars
    /\ UNCHANGED appvars

NextExtract == CallT1Extract \/ CallT2Extract

SpecExtract == InitExtract /\ [][NextExtract]_vars


(***************************************************************************)
(* The matcher applied to catalogs, band lists and targets of a bounded    *)
(* input set; a catalog is a selection of RecordPool, in its order.        *)
(***************************************************************************)
Catalogs ==
    {Select(idx) : idx \in {S \in SUBSET (1..Len(RecordPool)) :
                               Cardinality(S) <= MaxCatalog}}

BandLists == {<<>>, <<SAR>>, <<<<"s", "a", "r">>, <<"c">>>>, <<<<"T", "I", "R">>>>}
ResTargets == {<<10, 1>>, <<30, 1>>, <<10000, 1>>}
RevisitTargets == {<<3, 1>>, <<10, 1>>, <<10000, 1>>}

InitMatch ==
    /\ catalog \in Catalogs
    /\ bands \in BandLists
    /\ res_target \in ResTargets
    /\ revisit_target \in RevisitTargets
    /\ recs = <<>>
    /\ called = {}
    /\ text = <<>>
    /\ block1 = NotCalled
    /\ block2 = NotCalled
    /\ IdleApp

CallSearch ==
    /\ "_search_satellites" \notin called
    /\ recs' = _search_satellites(catalog, bands, res_target, revisit_target)
    /\ called' = called \cup {"_search_satellites"}
    /\ UNCHANGED <<catalog, bands, res_target, revisit_target>>
    /\ UNCHANGED exvars
    /\ UNCHANGED appvars

NextMatch == CallSearch

SpecMatch == InitMatch /\ [][NextMatch]_vars


(***************************************************************************)
(* Properties of the JSON-block extractors (SpecExtract).                  *)
(***************************************************************************)
IsSubstring(a, b) == \E i \in 1..(Len(b) + 1) : HasAt(b, i, a)

Braced(b) == Len(b) >= 2 /\ b[1] = "{" /\ b[Len(b)] = "}"

HasChar(t, c) == \E i \in 1..Len(t) : t[i] = c

HasFence(t) == \E i \in 1..Len(t) : HasAt(t, i, FENCE)

\* The first '{' of t is never closed by depth counting.
Unclosed(t) ==
    /\ HasChar(t, "{")
    /\ LET start == Min({i \in 1..Len(t) : t[i] = "{"})
       IN  \A i \in start..Len(t) :
               t[i] = "}" => Count(t, start, i, "{") # Count(t, start, i, "}")

BlockContract(t, b) ==
    /\ b = EMPTY_OBJECT \/ (IsSubstring(b, t) /\ Braced(b))
    /\ ~HasChar(t, "{") => b = EMPTY_OBJECT

InSeq(x, sq) == \E i \in 1..Len(sq) : sq[i] = x

ContainsBands(sat, bs) ==
    \A i \in 1..Len(bs) : IsSubstring(Lower(bs[i]), Lower(sat.spectral_band))

\* res <= 1.5 * target, as 2 * res <= 3 * target
Within(x, target) == 2 * x[1] * target[2] <= 3 * target[1] * x[2]

PassesFilter(sat) ==
    /\ ContainsBands(sat, bands)
    /\ Within(_parse_min_res(sat.spatial_resolution_m), res_target)
    /\ Within(_parse_revisit_days(sat.revisit), revisit_target)

Distance(sat) ==
    RAdd(RAbs(RSub(_parse_min_res(sat.spatial_resolution_m), res_target)),
         RAbs(RSub(_parse_revisit_days(sat.revisit), revisit_target)))

\* C6: _search_satellites returns at most 5 records, each of the catalog and
\* passing the filter, in non-decreasing order of distance to the targets; no
\* passing record left out is strictly closer than a returned one; the result
\* is empty when no record holds all bands of a non-empty band list.
C6_SearchContract ==
    "_search_satellites" \in called =>
        /\ Len(recs) <= 5
        /\ \A i \in 1..Len(recs) : InSeq(recs[i], catalog) /\ PassesFilter(recs[i])
        /\ \A i, j \in 1..Len(recs) :
               i < j => RLe(Distance(recs[i]), Distance(recs[j]))
        /\ \A k \in 1..Len(catalog) :
               (PassesFilter(catalog[k]) /\ ~InSeq(catalog[k], recs)) =>
                   \A i \in 1..Len(recs) :
                       ~RLt(Distance(catalog[k]), Distance(recs[i]))
        /\ (bands # <<>> /\ \A k \in 1..Len(catalog) :
                                ~ContainsBands(catalog[k], bands)) => recs = <<>>

\* More than five records pass the filter of a band search; five are returned.
C6_Witness ==
    /\ "_search_satellites" \in called
    /\ bands = <<SAR>>
    /\ Cardinality({k \in 1..Len(catalog) : PassesFilter(catalog[k])}) > 5
    /\ Len(recs) = 5

Unparseable(sat) ==
    \/ _parse_min_res(sat.spatial_resolution_m) = SentinelR
    \/ _parse_revisit_days(sat.revisit) = SentinelR

\* C7: a record whose resolution or revisit text holds no number fails the
\* filter for every target, and in a result it comes after every record whose
\* two fields both hold numbers.
C7_SentinelFailsFilter ==
    "_search_satellites" \in called =>
        /\ \A k \in 1..Len(catalog) :
               Unparseable(catalog[k]) => ~PassesFilter(catalog[k])
        /\ \A i, j \in 1..Len(recs) :
               (Unparseable(recs[i]) /\ ~Unparseable(recs[j])) => j < i

(***************************************************************************)
(* Properties of the application (Spec, SpecTab2).  A state is the state    *)
(* after the run that the press of last.button started; prev is the        *)
(* session before that run.                                                *)
(***************************************************************************)
PlanKeys == {"draft_plan", "final_plan", "design_plan_draft", "design_plan_confirmed"}

Absent(v) == v.kind = "none"

\* C1: after the Tab1 OK button is pressed on a non-empty draft, Tab2 finds a
\* confirmed plan under the key it reads and does not return with its notice:
\* its generate button is shown.
C1_ConfirmOpensTab2 ==
    (last.button = "t1_ok" /\ Truthy(prev.draft_plan)) =>
        /\ ~Absent(session.confirmed_plan)
        /\ ui.t2 # "notice"
        /\ "t2_gen" \in ui.buttons

\* C2: when the completion call of a generate button raises, no exception
\* leaves the handler, an error is shown, and every plan key keeps its value.
C2_TransportErrorHandled ==
    (last.button \in {"t1_gen", "t2_gen"} /\ last.reply.err) =>
        /\ "uncaught_exception" \notin ui.msgs
        /\ ui.msgs \cap {"t1_json_error", "t2_api_error"} # {}
        /\ \A k \in PlanKeys : session[k] = prev[k]

\* C3: when the text of a reply holds no valid JSON, the draft key of the
\* stage keeps its value and an error is shown with the raw text (Tab2 shows
\* one kind of error only).
C3_ExtractionFailureCommitsNothing ==
    /\ (/\ last.button = "t1_gen"
        /\ ~last.reply.err
        /\ ~json_loads(T1_extract_json_block(last.reply.text)).ok) =>
           /\ session.draft_plan = prev.draft_plan
           /\ {"t1_json_error", "t1_raw_text"} \subseteq ui.msgs
    /\ (/\ last.button = "t2_gen"
        /\ ~last.reply.err
        /\ ~json_loads(T2_extract_json_block(last.reply.text)).ok) =>
           /\ session.design_plan_draft = prev.design_plan_draft
           /\ "t2_api_error" \in ui.msgs

\* C4: each stored plan is absent or a JSON object.
C4_StoredPlansAreObjects ==
    \A k \in PlanKeys : Absent(session[k]) \/ session[k].kind = "object"

\* C5 (as claimed): a clear button, Tab1's or Tab2's, makes one plan key absent
\* and leaves the other three as they were.
C5_ClearOneKey ==
    last.button \in {"t1_clear", "t2_clear"} =>
        \E k \in PlanKeys :
            /\ Absent(session[k])
            /\ \A o \in PlanKeys \ {k} : session[o] = prev[o]

\* C5 (amended): the clear button of Tab1 makes draft_plan absent and leaves
\* final_plan, design_plan_draft and design_plan_confirmed as they were; the
\* clear button of Tab2 makes design_plan_draft and design_plan_confirmed
\* absent, both, and leaves draft_plan and final_plan as they were.
C5_ClearFrames ==
    /\ last.button = "t1_clear" =>
           /\ Absent(session.draft_plan)
           /\ \A o \in PlanKeys \ {"draft_plan"} : session[o] = prev[o]
    /\ last.button = "t2_clear" =>
           /\ Absent(session.design_plan_draft)
           /\ Absent(session.design_plan_confirmed)
           /\ session.draft_plan = prev.draft_plan
           /\ session.final_plan = prev.final_plan

\* The clear button of Tab2 was pressed with a draft, a final plan and a
\* confirmed configuration in the session; both configuration keys are absent
\* and the plans of Tab1 are still there.
C5_Witness ==
    /\ last.button = "t2_clear"
    /\ Truthy(prev.design_plan_draft)
    /\ Truthy(prev.design_plan_confirmed)
    /\ Absent(session.design_plan_draft)
    /\ Absent(session.design_plan_confirmed)
    /\ Truthy(session.draft_plan)
    /\ ~Absent(session.final_plan)

\* The draft carries its requirements as {bands, gsd_m, revisit_days}.
IsGsdDraft(d) ==
    /\ IsDict(d)
    /\ "requirements" \in d.keys
    /\ d.rkeys = {"bands", "gsd_m", "revisit_days"}

\* The draft carries its requirements under the keys the OK handler reads.
IsTargetDraft(d) ==
    /\ IsDict(d)
    /\ "requirements" \in d.keys
    /\ d.rkeys = {"bands", "spatial_resolution_m_target", "revisit_days_target"}

\* The catalog holds one record: it has the bands of the draft d, and its
\* parsed resolution and revisit are the numbers of d under the keys rk, vk.
OneRecordEqual(d, rk, vk) ==
    /\ Len(catalog) = 1
    /\ \A i \in 1..Len(BandItems(d.bands)) :
           IsSubstring(Lower(BandItems(d.bands)[i]), Lower(catalog[1].spectral_band))
    /\ _parse_min_res(catalog[1].spatial_resolution_m) = d.nums[rk].v
    /\ _parse_revisit_days(catalog[1].revisit) = d.nums[vk].v

Confirmed == last.button = "t1_ok" /\ "t1_success" \in ui.msgs

\* C9 (as claimed): a draft with requirements {bands, gsd_m, revisit_days} is
\* confirmed with a catalog of one record that has the band and whose parsed
\* resolution and revisit equal gsd_m and revisit_days: recommended_satellites
\* is that record.
C9_GsdDraftRecommendsRecord ==
    (/\ Confirmed
     /\ IsGsdDraft(prev.draft_plan)
     /\ OneRecordEqual(prev.draft_plan, "gsd_m", "revisit_days")) =>
        session.final_plan.recommended_satellites = catalog

\* C9 (amended): with the requirements under spatial_resolution_m_target and
\* revisit_days_target, the one record that equals them is the recommendation;
\* with the requirements under gsd_m and revisit_days the targets are the
\* fallbacks 30 and 5, and the one record is the recommendation when its parsed
\* resolution is at most 45 and its parsed revisit at most 7.5 (as in the
\* instance SAR, 10, 3), and there is no recommendation otherwise.
C9_ConfirmRecommendsRecord ==
    /\ (/\ Confirmed
        /\ IsTargetDraft(prev.draft_plan)
        /\ OneRecordEqual(prev.draft_plan, "spatial_resolution_m_target",
                          "revisit_days_target")) =>
           session.final_plan.recommended_satellites = catalog
    /\ (/\ Confirmed
        /\ IsGsdDraft(prev.draft_plan)
        /\ OneRecordEqual(prev.draft_plan, "gsd_m", "revisit_days")) =>
           /\ session.final_plan.spatial_resolution_target_m = <<30, 1>>
           /\ session.final_plan.revisit_target_days = <<5, 1>>
           /\ session.final_plan.recommended_satellites =
                  IF /\ RLe(_parse_min_res(catalog[1].spatial_resolution_m), <<45, 1>>)
                     /\ RLe(_parse_revisit_days(catalog[1].revisit), <<15, 2>>)
                  THEN catalog ELSE <<>>

\* The instance: the draft with bands "SAR", gsd_m 10 and revisit_days 3 is
\* confirmed with the one record of resolution "10" and revisit "3 days".
C9_Witness ==
    /\ Confirmed
    /\ prev.draft_plan = DraftGsd(10, 3)
    /\ catalog = <<RecordPool[1]>>
    /\ OneRecordEqual(prev.draft_plan, "gsd_m", "revisit_days")
    /\ session.final_plan.recommended_satellites = catalog

\* C10: where Tab2 chooses the plan to show and a confirmed configuration
\* exists, it shows the confirmed one; a run started by any button but Tab2's
\* OK and clear (a generation, failed or not, among them) leaves the confirmed
\* configuration as it was.
C10_ConfirmedPreferred ==
    /\ (ui.t2 \in {"view", "raised", "stopped"}
            /\ Truthy(session.design_plan_confirmed)) =>
           ui.design = session.design_plan_confirmed
    /\ last.button \notin {"t2_ok", "t2_clear"} =>
           session.design_plan_confirmed = prev.design_plan_confirmed

\* A generation after a confirm stored a draft that differs from the confirmed
\* plan; the confirmed plan is shown.
C10_Witness ==
    /\ last.button = "t2_gen"
    /\ session.design_plan_confirmed = PlanA
    /\ session.design_plan_draft = PlanB
    /\ ui.t2 = "view"
    /\ ui.design = PlanA

====
